---- MODULE Spec2Model ----
(***************************************************************************)
(* State-machine model of the checklist application in src/src/App.tsx:    *)
(* the state owned by ChecklistApp, one action per event handler, and the  *)
(* Date arithmetic (local fields, toISOString) the handlers rely on.       *)
(*                                                                         *)
(* A Date is an instant counted in clock ticks since 1970-01-01T00:00Z;    *)
(* one tick is the resolution of the clock, TicksPerDay ticks make a day.  *)
(* Strings are sequences of one-character strings.                         *)
(***************************************************************************)
EXTENDS Integers, Sequences, FiniteSets, TLC

VARIABLES view, selectedDate, year, tasksByDate, editingId, editingValue,
          newTask, today, now, tz, dst, session

vars == <<view, selectedDate, year, tasksByDate, editingId, editingValue,
          newTask, today, now, tz, dst, session>>

-----------------------------------------------------------------------------
(* Bounds of the model                                                     *)

\* clock ticks per day (the granularity of instants and of timezone offsets):
\* one tick is one hour
TicksPerDay == 24
\* standard timezone offsets range over -MaxTZ..MaxTZ ticks (local = UTC + offset)
MaxTZ == 1
\* the clock reads StartTick .. StartTick + MaxTicks
MaxTicks == 1
\* total number of tasks in the store
MaxTasks == 2
\* the displayed year stays within the year of today and MaxYearShift years after it
MaxYearShift == 1
\* selectable day cells: the local day of today and CellWindow days after it
CellWindow == 0

\* editingId === null (no task id is negative)
NULL == -1

\* the edit session in progress: whether Escape was pressed in it and the
\* text the task had when it started (history, not program state)
NoSession == [esc |-> FALSE, text |-> <<>>]

-----------------------------------------------------------------------------
(* Strings                                                                 *)

Digits == <<"0", "1", "2", "3", "4", "5", "6", "7", "8", "9">>

\* n >= 0 written in decimal with at least w digits (String.padStart(w, "0"))
RECURSIVE Pad(_, _)
Pad(n, w) ==
    IF n < 10 /\ w <= 1
    THEN <<Digits[n + 1]>>
    ELSE Pad(n \div 10, w - 1) \o <<Digits[(n % 10) + 1]>>

IsSpace(c) == c = " "

\* String.prototype.trim
RECURSIVE trimStart(_)
trimStart(s) ==
    IF s # <<>> /\ IsSpace(Head(s)) THEN trimStart(Tail(s)) ELSE s

RECURSIVE trimEnd(_)
trimEnd(s) ==
    IF s # <<>> /\ IsSpace(s[Len(s)]) THEN trimEnd(SubSeq(s, 1, Len(s) - 1)) ELSE s

trim(s) == trimEnd(trimStart(s))

\* String.prototype.slice(from, to) for 0 <= from <= to
slice(s, from, to) ==
    SubSeq(s, from + 1, IF to < Len(s) THEN to ELSE Len(s))

-----------------------------------------------------------------------------
(* Date                                                                    *)

\* day number (days since 1970-01-01) of the civil date y-m-d, m in 1..12
DaysFromCivil(y, m, d) ==
    LET yy  == IF m <= 2 THEN y - 1 ELSE y
        era == yy \div 400
        yoe == yy - era * 400
        mp  == IF m > 2 THEN m - 3 ELSE m + 9
        doy == (153 * mp + 2) \div 5 + d - 1
        doe == yoe * 365 + yoe \div 4 - yoe \div 100 + doy
    IN  era * 146097 + doe - 719468

\* civil date [y, m, d] (m in 1..12) of a day number
CivilFromDays(z) ==
    LET zz  == z + 719468
        era == zz \div 146097
        doe == zz - era * 146097
        yoe == (doe - doe \div 1460 + doe \div 36524 - doe \div 146096) \div 365
        doy == doe - (365 * yoe + yoe \div 4 - yoe \div 100)
        mp  == (5 * doy + 2) \div 153
        d   == doy - (153 * mp + 2) \div 5 + 1
        m   == IF mp < 10 THEN mp + 3 ELSE mp - 9
    IN  [y |-> yoe + era * 400 + (IF m <= 2 THEN 1 ELSE 0), m |-> m, d |-> d]

\* MakeDay of ECMAScript: month is 0-based and may overflow, date may be <= 0
MakeDay(y, month, date) ==
    DaysFromCivil(y + month \div 12, (month % 12) + 1, 1) + date - 1

\* day number of the last Sunday of a 31-day month (1970-01-01 is a Thursday)
LastSunday(y, m) ==
    LET z == DaysFromCivil(y, m, 31)
    IN  z - ((z + 4) % 7)

\* daylight saving time is in force at instant t: in a zone that observes it
\* (dst), from the last Sunday of March to the last Sunday of October, each
\* change one tick after UTC midnight
InDst(t) ==
    LET y == CivilFromDays(t \div TicksPerDay).y
    IN  /\ dst
        /\ t >= LastSunday(y, 3) * TicksPerDay + 1
        /\ t < LastSunday(y, 10) * TicksPerDay + 1

\* the offset of local time from UTC at instant t, in ticks
OffsetAt(t) == tz + (IF InDst(t) THEN 1 ELSE 0)

\* the instant of a local time tl (ticks since 1970-01-01T00:00 local): a
\* local time that is skipped or repeated takes the offset in force before
\* the change
UTCOf(tl) ==
    IF OffsetAt(tl - (tz + 1)) = tz + 1 THEN tl - (tz + 1) ELSE tl - tz

\* the local calendar day (day number) of instant t
LocalDay(t) == (t + OffsetAt(t)) \div TicksPerDay

\* the UTC calendar day (day number) of instant t
UTCDay(t) == t \div TicksPerDay

getFullYear(t) == CivilFromDays(LocalDay(t)).y
getMonth(t) == CivilFromDays(LocalDay(t)).m - 1
getDate(t) == CivilFromDays(LocalDay(t)).d

\* new Date(y, month, date): local midnight of that local date
NewDate(y, month, date) ==
    LET fy == IF y >= 0 /\ y <= 99 THEN 1900 + y ELSE y
    IN  UTCOf(MakeDay(fy, month, date) * TicksPerDay)

\* milliseconds into the UTC day of instant t
MsOfDay(t) == ((t % TicksPerDay) * 86400000) \div TicksPerDay

\* Date.prototype.toISOString: UTC fields, YYYY-MM-DDTHH:mm:ss.sssZ, with the
\* expanded year (+/-YYYYYY) outside 0..9999
toISOString(t) ==
    LET c  == CivilFromDays(UTCDay(t))
        ms == MsOfDay(t)
        yr == IF c.y >= 0 /\ c.y <= 9999
              THEN Pad(c.y, 4)
              ELSE IF c.y < 0 THEN <<"-">> \o Pad(-c.y, 6)
                              ELSE <<"+">> \o Pad(c.y, 6)
    IN  yr \o <<"-">> \o Pad(c.m, 2) \o <<"-">> \o Pad(c.d, 2) \o <<"T">>
           \o Pad(ms \div 3600000, 2) \o <<":">>
           \o Pad((ms \div 60000) % 60, 2) \o <<":">>
           \o Pad((ms \div 1000) % 60, 2) \o <<".">>
           \o Pad(ms % 1000, 3) \o <<"Z">>

\* const fmt = (d: Date) => d.toISOString().slice(0, 10)
fmt(d) == slice(toISOString(d), 0, 10)

-----------------------------------------------------------------------------
(* Task store                                                              *)

\* interface Task { id: number; text: string; completed: boolean }
Task(id, text, completed) == [id |-> id, text |-> text, completed |-> completed]

\* prev[key] || []
Lookup(store, key) == IF key \in DOMAIN store THEN store[key] ELSE <<>>

\* currentTasks: the list displayed by the day view
currentTasks == Lookup(tasksByDate, fmt(selectedDate))

\* setCurrentTasks without the spread of prev: ({ [key]: newList })
setCurrentTasksNoSpread(prev, newList) ==
    [k \in {fmt(selectedDate)} |-> newList]

\* the store after setCurrentTasks(updater) when the updater returns newList:
\* ({ ...prev, [key]: newList })
setCurrentTasks(prev, newList) ==
    LET key == fmt(selectedDate)
    IN  [k \in DOMAIN prev \cup {key} |-> IF k = key THEN newList ELSE prev[k]]

\* prev.map((t) => (t.id === id ? { ...t, completed: !t.completed } : t))
toggleUpdater(prev, id) ==
    [i \in 1..Len(prev) |->
        IF prev[i].id = id
        THEN Task(prev[i].id, prev[i].text, ~prev[i].completed)
        ELSE prev[i]]

\* prev.filter((t) => t.id !== id)
deleteUpdater(prev, id) == SelectSeq(prev, LAMBDA t : t.id # id)

\* prev.map((t) => (t.id === editingId ? { ...t, text: value || t.text } : t))
renameUpdater(prev, id, value) ==
    [i \in 1..Len(prev) |->
        IF prev[i].id = id
        THEN Task(prev[i].id, IF value # <<>> THEN value ELSE prev[i].text,
                  prev[i].completed)
        ELSE prev[i]]

\* the new task put first: [{ id, text: value, completed: false }, ...prev]
addUpdaterPrepend(prev, id, value) == <<Task(id, value, FALSE)>> \o prev

\* [...prev, { id: Date.now(), text: value, completed: false }]
addUpdater(prev, id, value) == Append(prev, Task(id, value, FALSE))

\* the store each handler leaves behind when it runs in the current state
AfterToggle(id) ==
    setCurrentTasks(tasksByDate, toggleUpdater(currentTasks, id))

AfterDelete(id) ==
    setCurrentTasks(tasksByDate, deleteUpdater(currentTasks, id))

AfterSave ==
    IF editingId = NULL
    THEN tasksByDate
    ELSE setCurrentTasks(tasksByDate,
                         renameUpdater(currentTasks, editingId, trim(editingValue)))

AfterNewTask(text) ==
    IF trim(text) = <<>>
    THEN tasksByDate
    ELSE setCurrentTasks(tasksByDate, addUpdater(currentTasks, now, trim(text)))

\* handleNewTask with setNewTask(text) for setNewTask("")
NewTaskAfterSubmitTrimmed(text) == trim(text)

\* handleNewTask without setNewTask("")
NewTaskAfterSubmitKept(text) == text

\* the new-task buffer handleNewTask leaves behind: the early return keeps it,
\* setNewTask("") clears it
NewTaskAfterSubmit(text) == IF trim(text) = <<>> THEN text ELSE <<>>
\* dayStatus with some() where the code has every()
dayStatusSome(d) ==
    LET list == Lookup(tasksByDate, fmt(d))
    IN  IF fmt(d) \notin DOMAIN tasksByDate \/ Len(list) = 0
        THEN "none"
        ELSE IF \E i \in 1..Len(list) : list[i].completed
             THEN "complete"
             ELSE "incomplete"

\* dayStatus without the list.length === 0 test
dayStatusNoLength(d) ==
    LET list == Lookup(tasksByDate, fmt(d))
    IN  IF fmt(d) \notin DOMAIN tasksByDate
        THEN "none"
        ELSE IF \A i \in 1..Len(list) : list[i].completed
             THEN "complete"
             ELSE "incomplete"


\* const dayStatus = (d: Date) => ...
dayStatus(d) ==
    LET list == Lookup(tasksByDate, fmt(d))
    IN  IF fmt(d) \notin DOMAIN tasksByDate \/ Len(list) = 0
        THEN "none"
        ELSE IF \A i \in 1..Len(list) : list[i].completed
             THEN "complete"
             ELSE "incomplete"

-----------------------------------------------------------------------------
(* Inputs                                                                  *)

\* what the user types into the new-task input
NewInputs == { <<>>, <<" ">>, <<" ", "a", " ">> }

\* what the user types into the edit input
EditInputs == { <<" ", "b">> }

\* the instants the clock reads
\* the instant the page is loaded: the middle of 2024-12-31 (UTC)
StartTick == DaysFromCivil(2024, 12, 31) * TicksPerDay + TicksPerDay \div 2

\* total number of tasks in a store
RECURSIVE SumLen(_, _)
SumLen(store, keys) ==
    IF keys = {} THEN 0
    ELSE LET k == CHOOSE x \in keys : TRUE
         IN  Len(store[k]) + SumLen(store, keys \ {k})

NumTasks == SumLen(tasksByDate, DOMAIN tasksByDate)

\* the rows of the day view
Rows == IF view = "day" THEN 1..Len(currentTasks) ELSE {}

\* the row rendered as an <input>: editingId === task.id
IsEditRow(i) == editingId = currentTasks[i].id

-----------------------------------------------------------------------------
(* Initial state: ChecklistApp's useState initial values                   *)

Init ==
    /\ tz \in -MaxTZ..MaxTZ
    /\ dst = FALSE
    /\ session = NoSession
    /\ now = StartTick
    /\ today = now
    /\ view = "day"
    /\ selectedDate = now
    /\ year = getFullYear(now)
    /\ tasksByDate = << >>
    /\ editingId = NULL
    /\ editingValue = <<>>
    /\ newTask = <<>>

-----------------------------------------------------------------------------
(* Event handlers                                                          *)

\* the wall clock advances by one tick
ClockTick ==
    /\ now < StartTick + MaxTicks
    /\ now' = now + 1
    /\ UNCHANGED <<view, selectedDate, year, tasksByDate, editingId,
                   editingValue, newTask, today, tz, dst, session>>

\* TaskBox onClick={() => onToggle(task.id)}
toggleTask(id) ==
    /\ \E i \in Rows : currentTasks[i].id = id
    /\ tasksByDate' = AfterToggle(id)
    /\ UNCHANGED <<view, selectedDate, year, editingId, editingValue, newTask,
                   today, now, tz, dst, session>>

\* delete button onClick={() => onDelete(task.id)}
deleteTask(id) ==
    /\ \E i \in Rows : currentTasks[i].id = id
    /\ tasksByDate' = AfterDelete(id)
    /\ UNCHANGED <<view, selectedDate, year, editingId, editingValue, newTask,
                   today, now, tz, dst, session>>

\* text button onClick={() => onStartEdit(task)}, shown on rows not in edit mode
startEditing(i) ==
    /\ i \in Rows
    /\ ~IsEditRow(i)
    /\ editingId' = currentTasks[i].id
    /\ editingValue' = currentTasks[i].text
    /\ session' = [esc |-> FALSE, text |-> currentTasks[i].text]
    /\ UNCHANGED <<view, selectedDate, year, tasksByDate, newTask, today, now,
                   tz, dst>>

\* edit input onChange={(e) => onEditChange(e.target.value)}
onEditChange(v) ==
    /\ \E i \in Rows : IsEditRow(i)
    /\ editingValue' = v
    /\ UNCHANGED <<view, selectedDate, year, tasksByDate, editingId, newTask,
                   today, now, tz, dst, session>>

\* edit input onKeyDown, e.key === 'Escape': onEditChange("")
EditEscape ==
    /\ \E i \in Rows : IsEditRow(i)
    /\ editingValue' = <<>>
    /\ UNCHANGED <<view, selectedDate, year, tasksByDate, editingId, newTask,
                   today, now, tz, dst>>
    /\ session' = [session EXCEPT !.esc = TRUE]

\* const saveEditing = () => ...
saveEditing ==
    /\ tasksByDate' = AfterSave
    /\ IF editingId = NULL
       THEN UNCHANGED <<editingId, editingValue, session>>
       ELSE editingId' = NULL /\ editingValue' = <<>> /\ session' = NoSession
    /\ UNCHANGED <<view, selectedDate, year, newTask, today, now, tz, dst>>

\* edit input onKeyDown, e.key === 'Enter': onSaveEdit()
EditEnter ==
    /\ \E i \in Rows : IsEditRow(i)
    /\ saveEditing

\* edit input onBlur={onSaveEdit}
EditBlur ==
    /\ \E i \in Rows : IsEditRow(i)
    /\ saveEditing

\* new-task input onChange={(e) => onNewChange(e.target.value)}
onNewChange(v) ==
    /\ view = "day"
    /\ newTask' = v
    /\ UNCHANGED <<view, selectedDate, year, tasksByDate, editingId,
                   editingValue, today, now, tz, dst, session>>

\* const handleNewTask = () => ...
handleNewTask ==
    /\ trim(newTask) # <<>> => NumTasks < MaxTasks
    /\ tasksByDate' = AfterNewTask(newTask)
    /\ newTask' = NewTaskAfterSubmit(newTask)
    /\ UNCHANGED <<view, selectedDate, year, editingId, editingValue, today,
                   now, tz, dst, session>>

\* handleKeyDownNew with e.key === 'Enter'
handleKeyDownNew ==
    /\ view = "day"
    /\ handleNewTask

\* new-task input onBlur={handleNewTask}
onNewBlur ==
    /\ view = "day"
    /\ handleNewTask

\* onBack={() => setView('calendar')}
onBack ==
    /\ view = "day"
    /\ view' = "calendar"
    /\ UNCHANGED <<selectedDate, year, tasksByDate, editingId, editingValue,
                   newTask, today, now, tz, dst, session>>

\* new Date(year, month + 1, 0).getDate()
DaysInMonth(y, month) == getDate(NewDate(y, month + 1, 0))

\* Date.prototype.getDay in local time: 0 = Sunday; 1970-01-01 was a Thursday
getDay(t) == (LocalDay(t) + 4) % 7

\* startDay with Sunday as the first column
StartDaySundayFirst(first) == getDay(first)

\* const startDay = (first.getDay() + 6) % 7; // Mon=0
StartDay(first) == (getDay(first) + 6) % 7

\* while (cells.length % 7 !== 0) cells.push(null)
RECURSIVE PadCells(_)
PadCells(cells) ==
    IF Len(cells) % 7 # 0 THEN PadCells(Append(cells, NULL)) ELSE cells

\* the cells array of Month: NULL for a blank cell, a Date for a day cell
MonthCells(y, month) ==
    LET first == NewDate(y, month, 1)
        startDay == StartDay(first)
        daysInMonth == DaysInMonth(y, month)
        lead == [i \in 1..startDay |-> NULL]
        days == [d \in 1..daysInMonth |-> NewDate(y, month, d)]
    IN  PadCells(lead \o days)

\* Month pushes one cell new Date(year, month, d) for d in 1..daysInMonth
IsCell(y, month, d) ==
    /\ month \in 0..11
    /\ d \in 1..DaysInMonth(y, month)

\* onSelect without setSelectedDate(d)
onSelectKeepsDate(month, d) ==
    /\ view = "calendar"
    /\ IsCell(year, month, d)
    /\ view' = "day"
    /\ UNCHANGED <<selectedDate, year, tasksByDate, editingId, editingValue,
                   newTask, today, now, tz, dst, session>>

\* DayCell onClick={() => onSelect(date)}: setSelectedDate(d); setView('day')
onSelect(month, d) ==
    /\ view = "calendar"
    /\ IsCell(year, month, d)
    /\ selectedDate' = NewDate(year, month, d)
    /\ view' = "day"
    /\ UNCHANGED <<year, tasksByDate, editingId, editingValue, newTask, today,
                   now, tz, dst, session>>

\* onPrevYear={() => setYear((y) => y - 1)}
onPrevYear ==
    /\ view = "calendar"
    /\ year - 1 >= getFullYear(today)
    /\ year' = year - 1
    /\ UNCHANGED <<view, selectedDate, tasksByDate, editingId, editingValue,
                   newTask, today, now, tz, dst, session>>

\* onNextYear={() => setYear((y) => y + 1)}
onNextYear ==
    /\ view = "calendar"
    /\ year + 1 <= getFullYear(today) + MaxYearShift
    /\ year' = year + 1
    /\ UNCHANGED <<view, selectedDate, tasksByDate, editingId, editingValue,
                   newTask, today, now, tz, dst, session>>

\* onToday that also selects today
onTodaySelects ==
    /\ view = "calendar"
    /\ year' = getFullYear(today)
    /\ selectedDate' = today
    /\ UNCHANGED <<view, tasksByDate, editingId, editingValue, newTask, today,
                   now, tz, dst, session>>

\* onToday={() => setYear(today.getFullYear())}
onToday ==
    /\ view = "calendar"
    /\ year' = getFullYear(today)
    /\ UNCHANGED <<view, selectedDate, tasksByDate, editingId, editingValue,
                   newTask, today, now, tz, dst, session>>

\* the day cells the user picks: the local day of today and the days after it
SelectableDays == LocalDay(today) .. LocalDay(today) + CellWindow

\* the day cells of the twelve Months of a year, as <<month, day>>
YearCells(y) ==
    {c \in (0..11) \X (1..31) : c[2] <= DaysInMonth(y, c[1])}

\* the Dates dayStatus is called with: the day cells the user sees, and the
\* selected date and today for comparison
DatesShown ==
    {selectedDate, today} \cup
    {NewDate(year, CivilFromDays(z).m - 1, CivilFromDays(z).d) : z \in SelectableDays}

\* ids of the tasks in the store
RECURSIVE IdsOf(_, _)
IdsOf(store, keys) ==
    IF keys = {} THEN {}
    ELSE LET k == CHOOSE x \in keys : TRUE
         IN  {store[k][i].id : i \in 1..Len(store[k])} \cup IdsOf(store, keys \ {k})

StoreIds == IdsOf(tasksByDate, DOMAIN tasksByDate)

Next ==
    \/ ClockTick
    \/ \E id \in StoreIds : toggleTask(id)
    \/ \E id \in StoreIds : deleteTask(id)
    \/ \E i \in 1..MaxTasks : startEditing(i)
    \/ \E v \in EditInputs : onEditChange(v)
    \/ EditEscape
    \/ EditEnter
    \/ EditBlur
    \/ \E v \in NewInputs : onNewChange(v)
    \/ handleKeyDownNew
    \/ onNewBlur
    \/ onBack
    \/ \E z \in SelectableDays :
          onSelect(CivilFromDays(z).m - 1, CivilFromDays(z).d)
    \/ onPrevYear
    \/ onNextYear
    \/ onToday

Spec == Init /\ [][Next]_vars

-----------------------------------------------------------------------------
(* The calendar alone: the navigation handlers, for pages loaded in        *)
(* several years and in timezones with and without daylight saving time    *)

\* number of years in which the page is loaded
LoadYears == 3

\* the load instants: the middle of 31 December (UTC) of 2024, 2025, ...
LoadTicks ==
    {DaysFromCivil(2024 + i, 12, 31) * TicksPerDay + TicksPerDay \div 2 :
        i \in 0..LoadYears - 1}

InitNav ==
    /\ tz \in -MaxTZ..MaxTZ
    /\ dst \in BOOLEAN
    /\ session = NoSession
    /\ now \in LoadTicks
    /\ today = now
    /\ view = "day"
    /\ selectedDate = now
    /\ year = getFullYear(now)
    /\ tasksByDate = << >>
    /\ editingId = NULL
    /\ editingValue = <<>>
    /\ newTask = <<>>

NextNav ==
    \/ onBack
    \/ \E z \in SelectableDays :
          onSelect(CivilFromDays(z).m - 1, CivilFromDays(z).d)
    \/ onPrevYear
    \/ onNextYear
    \/ onToday

SpecNav == InitNav /\ [][NextNav]_vars

-----------------------------------------------------------------------------
(* Properties                                                              *)

\* the day cell labelled with the local date of the selected date, when the
\* displayed year has it
CellOfSelected ==
    LET c == CivilFromDays(LocalDay(selectedDate))
    IN  NewDate(year, c.m - 1, c.d)

HasCellOfSelected ==
    LET c == CivilFromDays(LocalDay(selectedDate))
    IN  c.y = year /\ IsCell(year, c.m - 1, c.d)

\* C1: every Date the app uses for a calendar date maps to the same date-key:
\* the selected date and the calendar cell of the same local date have the
\* same key, so the cell's status is computed from the list the day view shows.
C1_SameKeyForSameDate ==
    HasCellOfSelected =>
        /\ fmt(CellOfSelected) = fmt(selectedDate)
        /\ Lookup(tasksByDate, fmt(CellOfSelected)) = currentTasks

\* C2: a step taken while the date with key K is selected changes at most the
\* store entry for K; every other key keeps its list, or stays absent.
C2_OtherKeysUntouched ==
    [][\A k \in (DOMAIN tasksByDate \cup DOMAIN tasksByDate') \ {fmt(selectedDate)} :
          /\ k \in DOMAIN tasksByDate
          /\ k \in DOMAIN tasksByDate'
          /\ tasksByDate'[k] = tasksByDate[k]]_vars

\* two dates hold tasks: a mutation of one ran while the other was stored
C2_Witness ==
    \E k1 \in DOMAIN tasksByDate : \E k2 \in DOMAIN tasksByDate :
        /\ k1 # k2
        /\ k1 # fmt(selectedDate)
        /\ Len(tasksByDate[k1]) > 0
        /\ Len(tasksByDate[k2]) > 0

\* the positions (key, index) of the tasks in the store
Positions == {<<k, i>> \in (DOMAIN tasksByDate) \X (1..MaxTasks) : i <= Len(tasksByDate[k])}

\* C3: task ids are unique: no two tasks in the store have the same id.
C3_UniqueIds ==
    \A p \in Positions : \A q \in Positions :
        p # q => tasksByDate[p[1]][p[2]].id # tasksByDate[q[1]][q[2]].id

\* C4: toggle(id) on the current list flips the completed flag of exactly one
\* task, the one with that id, and leaves every other field, the length and
\* the order unchanged; with no such task the displayed list is unchanged.
C4_ToggleFlipsExactlyOne ==
    \A id \in StoreIds \cup {now} :
        LET old == currentTasks
            new == Lookup(AfterToggle(id), fmt(selectedDate))
            flipped == {i \in 1..Len(old) : new[i].completed # old[i].completed}
        IN  /\ Len(new) = Len(old)
            /\ \A i \in 1..Len(old) :
                  new[i].id = old[i].id /\ new[i].text = old[i].text
            /\ IF \E i \in 1..Len(old) : old[i].id = id
               THEN Cardinality(flipped) = 1 /\ \A i \in flipped : old[i].id = id
               ELSE new = old

\* C5: delete(id) on the current list removes exactly one entry, the task
\* with that id, and keeps the others and their order; with no such task the
\* displayed list is unchanged.
C5_DeleteRemovesExactlyOne ==
    \A id \in StoreIds \cup {now} :
        LET old == currentTasks
            new == Lookup(AfterDelete(id), fmt(selectedDate))
        IN  IF \E i \in 1..Len(old) : old[i].id = id
            THEN /\ Len(new) = Len(old) - 1
                 /\ \E i \in 1..Len(old) :
                       /\ old[i].id = id
                       /\ new = SubSeq(old, 1, i - 1) \o SubSeq(old, i + 1, Len(old))
            ELSE new = old

\* C6: in the state right after Escape is pressed in the edit input, the
\* editing-id is none and the edit buffer is empty.
C6_EscapeEndsEditing ==
    [][EditEscape => editingId' = NULL /\ editingValue' = <<>>]_vars

\* C7 as stated: a submit of the new-task input (Enter or blur) leaves the
\* buffer empty, whatever it held.
C7_SubmitLeavesBufferEmpty ==
    view = "day" => NewTaskAfterSubmit(newTask) = <<>>

\* s consists of spaces only
Blank(s) == \A i \in 1..Len(s) : s[i] = " "

\* C7 amended: a submit of a buffer holding non-blank text leaves the buffer
\* empty; a submit of an empty or whitespace-only buffer leaves it as it was.
C7_SubmitClearsNonBlank ==
    [][(handleKeyDownNew \/ onNewBlur) =>
          /\ ~Blank(newTask) => newTask' = <<>>
          /\ Blank(newTask) => newTask' = newTask
          /\ Blank(newTask')]_vars

\* a task was submitted and the buffer is empty again
C7_Witness ==
    /\ view = "day"
    /\ Len(currentTasks) > 0
    /\ newTask = <<>>

\* C8: at most one row of the displayed list is rendered as the edit input.
C8_AtMostOneEditRow ==
    Cardinality({i \in Rows : IsEditRow(i)}) <= 1

\* v is s without its leading and trailing spaces
IsTrimOf(v, s) ==
    /\ \E i \in 0..Len(s) : \E j \in i..Len(s) :
          /\ v = SubSeq(s, i + 1, j)
          /\ Blank(SubSeq(s, 1, i))
          /\ Blank(SubSeq(s, j + 1, Len(s)))
    /\ v # <<>> => v[1] # " " /\ v[Len(v)] # " "

\* C9: committing the edit of task id (Enter or blur) sets that task's text
\* to the trimmed buffer when it is non-empty and leaves it otherwise; the
\* task's id and completed flag, every other task and the order are
\* unchanged; afterwards editingId is none and the buffer is empty.
C9_CommitRenamesOne ==
    [][(EditEnter \/ EditBlur) =>
          \A old \in {currentTasks} : \A new \in {Lookup(tasksByDate', fmt(selectedDate))} :
              /\ Len(new) = Len(old)
              /\ \E i \in 1..Len(old) :
                    /\ old[i].id = editingId
                    /\ new[i].id = old[i].id
                    /\ new[i].completed = old[i].completed
                    /\ IF Blank(editingValue)
                       THEN new[i].text = old[i].text
                       ELSE IsTrimOf(new[i].text, editingValue)
                    /\ \A j \in 1..Len(old) : j # i => new[j] = old[j]
              /\ editingId' = NULL
              /\ editingValue' = <<>>]_vars

\* C10: add(text) with blank text leaves the store unchanged; otherwise the
\* current date's list grows by exactly one task at the end, with the trimmed
\* text and completed = false, and the existing tasks keep their order.
C10_AddAppends ==
    [][(handleKeyDownNew \/ onNewBlur) =>
          \A old \in {currentTasks} : \A new \in {Lookup(tasksByDate', fmt(selectedDate))} :
              IF Blank(newTask)
              THEN tasksByDate' = tasksByDate
              ELSE /\ Len(new) = Len(old) + 1
                   /\ SubSeq(new, 1, Len(old)) = old
                   /\ \A added \in {new[Len(new)]} :
                         /\ IsTrimOf(added.text, newTask)
                         /\ added.text # <<>>
                         /\ added.completed = FALSE]_vars

\* a second task was added behind a first one that has been completed since
C10_Witness ==
    /\ Len(currentTasks) = 2
    /\ currentTasks[1].completed
    /\ ~currentTasks[2].completed
    /\ currentTasks[2].text = <<"a">>

\* C11: if Escape was pressed in an edit session, then when the session ends
\* (Enter or blur) the task's stored text is the text it had when the session
\* started.
C11_EscapeKeepsText ==
    [][((EditEnter \/ EditBlur) /\ session.esc) =>
          \A i \in 1..Len(currentTasks) :
              (currentTasks[i].id = editingId /\ currentTasks[i].text = session.text) =>
                  Lookup(tasksByDate', fmt(selectedDate))[i].text = session.text]_vars

\* C12: for every date, dayStatus is one of none / incomplete / complete and is
\* determined by the date's stored list: none iff the list is absent or empty,
\* complete iff it is non-empty and every task is completed, incomplete iff it
\* is non-empty and some task is not completed.
C12_StatusOfList ==
    \A d \in DatesShown :
        LET present == fmt(d) \in DOMAIN tasksByDate
            list == Lookup(tasksByDate, fmt(d))
            nonEmpty == present /\ Len(list) > 0
        IN  /\ dayStatus(d) \in {"none", "incomplete", "complete"}
            /\ dayStatus(d) = "none" <=> ~nonEmpty
            /\ dayStatus(d) = "complete" <=>
                  (nonEmpty /\ \A i \in 1..Len(list) : list[i].completed)
            /\ dayStatus(d) = "incomplete" <=>
                  (nonEmpty /\ \E i \in 1..Len(list) : ~list[i].completed)

\* a list with a completed and a not completed task: status incomplete
C12_Witness ==
    /\ Len(currentTasks) = 2
    /\ ~currentTasks[1].completed
    /\ currentTasks[2].completed
    /\ dayStatus(selectedDate) = "incomplete"

\* C13: a date whose key is in the store with an empty list (all its tasks
\* were deleted) has the status and the displayed list of a date that was
\* never written: status none, no rows.
C13_EmptiedIsNone ==
    \A d \in DatesShown :
        (fmt(d) \in DOMAIN tasksByDate /\ tasksByDate[fmt(d)] = <<>>) =>
            /\ dayStatus(d) = "none"
            /\ (fmt(selectedDate) = fmt(d) => currentTasks = <<>> /\ Rows = {})

\* the selected date's key is in the store with an empty list: every task of
\* it was deleted
C13_Witness ==
    /\ fmt(selectedDate) \in DOMAIN tasksByDate
    /\ tasksByDate[fmt(selectedDate)] = <<>>
    /\ view = "day"

\* C14: previous-year, next-year and today change only the displayed year
\* (by -1, by +1, to today's year) and leave the selected date, the view, the
\* store and the editing state alone; back changes only the view, to calendar,
\* and leaves the store and the selected date alone. No step that changes the
\* year changes anything else of these.
C14_NavigationFrame ==
    [][/\ onPrevYear => year' = year - 1
       /\ onNextYear => year' = year + 1
       /\ onToday => year' = getFullYear(today)
       /\ (onPrevYear \/ onNextYear \/ onToday \/ year' # year) =>
              UNCHANGED <<selectedDate, view, tasksByDate, editingId,
                          editingValue, newTask>>
       /\ onBack => /\ view' = "calendar"
                    /\ UNCHANGED <<tasksByDate, selectedDate, year>>]_vars

\* the calendar shows another year than today's, for a selected cell, with
\* tasks in the store
C14_Witness ==
    /\ view = "calendar"
    /\ year = getFullYear(today) + 1
    /\ selectedDate # today
    /\ NumTasks > 0

\* C15: the program starts in the day view of the current date with an empty
\* store; a step that changes the view is either a click on a day cell in the
\* calendar view, which sets the selected date to the cell's date and leaves
\* the store alone, or the back control in the day view.
C15_ViewMachine ==
    /\ view = "day"
    /\ LocalDay(selectedDate) = LocalDay(now)
    /\ tasksByDate = << >>
    /\ [][view' # view =>
            \/ /\ view = "calendar"
               /\ view' = "day"
               /\ LET cell == CivilFromDays(LocalDay(selectedDate'))
                  IN  /\ onSelect(cell.m - 1, cell.d)
                      /\ selectedDate' = NewDate(year, cell.m - 1, cell.d)
               /\ UNCHANGED tasksByDate
            \/ /\ view = "day"
               /\ view' = "calendar"
               /\ onBack]_vars

\* the day view of a day cell, reached through the calendar, with a task
C15_Witness ==
    /\ view = "day"
    /\ selectedDate # today
    /\ selectedDate = NewDate(getFullYear(selectedDate), getMonth(selectedDate),
                              getDate(selectedDate))
    /\ Len(currentTasks) > 0

\* C16: for every month of the displayed year, with wd the weekday of its 1st
\* (getDay, Sunday = 0) and n its number of days (28..31), the cells of Month
\* are (wd + 6) mod 7 blanks (6 for a Sunday, 0 for a Monday), then the day
\* cells of the days 1..n in order, then fewer than 7 blanks, and their number
\* is a multiple of 7.
C16_MonthGrid ==
    \A month \in 0..11 :
        LET cells == MonthCells(year, month)
            wd == getDay(NewDate(year, month, 1))
            n == DaysInMonth(year, month)
            lead == (wd + 6) % 7
        IN  /\ n \in 28..31
            /\ wd = 0 => lead = 6
            /\ wd = 1 => lead = 0
            /\ Len(cells) >= lead + n
            /\ \A i \in 1..lead : cells[i] = NULL
            /\ \A d \in 1..n :
                  /\ cells[lead + d] # NULL
                  /\ getFullYear(cells[lead + d]) = year
                  /\ getMonth(cells[lead + d]) = month
                  /\ getDate(cells[lead + d]) = d
            /\ \A i \in lead + n + 1..Len(cells) : cells[i] = NULL
            /\ Len(cells) - (lead + n) < 7
            /\ Len(cells) % 7 = 0

\* the calendar of a year with a month whose 1st is a Sunday: day 1 is the
\* 7th cell of that month
C16_Witness ==
    /\ view = "calendar"
    /\ dst
    /\ \E month \in 0..11 :
          /\ getDay(NewDate(year, month, 1)) = 0
          /\ MonthCells(year, month)[6] = NULL
          /\ MonthCells(year, month)[7] = NewDate(year, month, 1)

\* C17: whenever editingId is not null, the list of the selected date holds
\* a task with that id.
C17_EditingIdNeverDangles ==
    editingId # NULL =>
        \E i \in 1..Len(currentTasks) : currentTasks[i].id = editingId

\* C18: Enter in the new-task input with a non-blank buffer adds exactly one
\* task and leaves a state in which the blur's handleNewTask changes nothing;
\* Enter in the edit input leaves a state in which the blur's saveEditing
\* changes nothing.
C18_EnterThenBlur ==
    [][/\ (handleKeyDownNew /\ ~Blank(newTask)) =>
              /\ Len(Lookup(tasksByDate', fmt(selectedDate))) = Len(currentTasks) + 1
              /\ AfterNewTask(newTask)' = tasksByDate'
              /\ NewTaskAfterSubmit(newTask)' = newTask'
       /\ EditEnter =>
              /\ AfterSave' = tasksByDate'
              /\ editingId' = NULL
              /\ editingValue' = <<>>]_vars

\* a task added by Enter and a task renamed by Enter, both inputs at rest
C18_Witness ==
    /\ view = "day"
    /\ newTask = <<>>
    /\ editingId = NULL
    /\ Len(currentTasks) = 2
    /\ currentTasks[1].text = <<"b">>
    /\ currentTasks[2].text = <<"a">>

\* C19: the day cells of the displayed year have pairwise different keys.
C19_KeysInjective ==
    Cardinality({fmt(NewDate(year, c[1], c[2])) : c \in YearCells(year)})
        = Cardinality(YearCells(year))

====
